---- MODULE Spec2Model ----
(***************************************************************************)
(* Model of the SSAO sample application (Source/Samples/54_SSAO/           *)
(* StaticScene.cpp): StaticScene::Start and the functions it calls         *)
(* (CreateScene, CreateInstructions, CreateSlider, SetupViewport,          *)
(* SubscribeToEvents), the five slider-changed handlers, and the per-frame *)
(* camera controller (HandleUpdate / MoveCamera).                          *)
(*                                                                         *)
(* Units.  Lengths and slider values are integers in thousandths (1.5 is   *)
(* 1500), shader parameters are integers in millionths (so that the        *)
(* falloff handler's division by 1000 is exact), angles are integers in    *)
(* tenths of a degree (90 degrees is 900).                                 *)
(***************************************************************************)
EXTENDS Integers, Sequences, FiniteSets, TLC

VARIABLES
    pc,              \* position in StaticScene::Start, "running" once it returned
    randomSeed,      \* state of the engine's random generator
    autoReload,      \* ResourceCache auto-reload flag
    scene_,          \* the scene: NULL or [components, children]
    i,               \* CreateScene's loop counter
    cameraNode_,     \* index of the camera node in scene_.children, 0 = null
    uiTexts,         \* Text elements created under the UI root
    window_,         \* the settings window: NULL or [visible, children]
    sliders,         \* slider text -> [range, value]
    subscribed,      \* event subscriptions of this object: set of <<sender, event>>
    nextSlider,      \* which of the five sliders CreateInstructions creates next
    renderPaths,     \* heap of RenderPath objects: id -> sequence of commands
    viewport0,       \* renderer viewport 0: NULL or [scene, camera, renderPath]
    yaw_, pitch_,    \* camera yaw and pitch, tenths of a degree
    mouseVisible,    \* Input: operating system cursor visible
    mouseMode,       \* Input: mouse mode
    focusElement,    \* UI: focused element, NULL if none
    handlerCalls,    \* number of slider-changed handler invocations so far
    nullDeref,       \* a handler dereferenced GetViewport(0) while it was null
    lastFrame,       \* what the last HandleUpdate read: time step, Tab press, keys,
                     \* mouse motion, whether the UI had a focused element; NULL
                     \* before the first
    tabLog,          \* window visibility and mouse mode before each processed Tab press
    frames,          \* number of frame updates processed
    sliderMoves      \* number of slider movements by the user

vars == <<pc, randomSeed, autoReload, scene_, i, cameraNode_, uiTexts, window_,
          sliders, subscribed, nextSlider, renderPaths,
          viewport0, yaw_, pitch_, mouseVisible, mouseMode, focusElement,
          handlerCalls, nullDeref, lastFrame, tabLog, frames,
          sliderMoves>>

sceneVars == <<randomSeed, autoReload, scene_, i, cameraNode_>>
uiVars == <<uiTexts, window_, sliders, subscribed, nextSlider>>
renderVars == <<renderPaths, viewport0>>
inputVars == <<mouseVisible, mouseMode, focusElement>>
eventVars == <<handlerCalls, nullDeref, lastFrame, tabLog, frames,
               sliderMoves>>

----------------------------------------------------------------------------
(* Bounds of the model *)

MaxFrames == 2
MaxSliderMoves == 1

(* Inputs *)
Seeds == {1, 3}
\* What a frame update reads: the time step (milliseconds), the keys held down
\* and the mouse motion (pixels) of the frame
FrameInputs ==
    {[timeStep |-> 16, keys |-> {}, mouseMove |-> <<0, 0>>],
     [timeStep |-> 50, keys |-> {"W", "D"}, mouseMove |-> <<900, 600>>],
     [timeStep |-> 20, keys |-> {"S", "A"}, mouseMove |-> <<-900, -600>>]}
SliderInputs == {250, 4000}

NULL == [null |-> TRUE]

----------------------------------------------------------------------------
(* Program constants *)

NUM_OBJECTS == 200
MOVE_SPEED == 20
\* 0.1 degree per pixel, in tenths of a degree
MOUSE_SENSITIVITY == 1

----------------------------------------------------------------------------
(* CreateScene *)

\* Random(range): the engine's generator, a deterministic stream per seed
\* with values in [0, range]
Random(range, seed, n) == (((seed * (n + 1)) % 5) * range) \div 4

Vector3(x, y, z) == <<x, y, z>>

\* A scene node as Scene::CreateChild makes it: at the origin, unrotated,
\* unit scale, no components
CreateChild(name) ==
    [name |-> name, position |-> Vector3(0, 0, 0),
     rotation |-> [pitch |-> 0, yaw |-> 0, roll |-> 0],
     scale |-> Vector3(1000, 1000, 1000), components |-> <<>>]

StaticModel(model, material) ==
    [type |-> "StaticModel", model |-> model, material |-> material]

PlaneNode ==
    [CreateChild("Plane") EXCEPT
        !.scale = Vector3(100000, 1000, 100000),
        !.components = <<StaticModel("Models/Plane.mdl", "Materials/Prototype.xml")>>]

ZoneNode ==
    [CreateChild("Zone") EXCEPT
        !.components = <<[type |-> "Zone", ambientColor |-> <<500, 500, 500>>,
                          fogStart |-> 100000, fogEnd |-> 300000]>>]

\* Line 123 left out: every box stays where CreateChild puts it
MushroomNodeUnplaced(k, seed) ==
    LET s == 3000 + Random(2000, seed, k) IN
    [CreateChild("Mushroom") EXCEPT
        !.scale = Vector3(s, s, s),
        !.components = <<StaticModel("Models/Box.mdl", "Materials/Prototype.xml")>>]

\* Lines 122-128: the box of iteration k
MushroomNode(k, seed) ==
    LET s == 3000 + Random(2000, seed, k) IN
    [CreateChild("Mushroom") EXCEPT
        !.position = Vector3(k * 1000, 1500, 0),
        !.scale = Vector3(s, s, s),
        !.components = <<StaticModel("Models/Box.mdl", "Materials/Prototype.xml")>>]

CameraNode ==
    [CreateChild("Camera") EXCEPT
        !.position = Vector3(0, 5000, 0),
        !.components = <<[type |-> "Camera"]>>]

----------------------------------------------------------------------------
(* Render paths *)

SSAOParameters ==
    {"SSAOStrength", "SSAOArea", "SSAOFalloff", "SSAONoiseFactor", "SSAORadius"}

NoParameters == [n \in {} |-> NULL]

Command(type, tag, enabled, parameters) ==
    [type |-> type, tag |-> tag, enabled |-> enabled, shaderParameters |-> parameters]

\* The render path a new Viewport starts with is the renderer's default one;
\* the README names ForwardDepth as the one the effect needs
Forward ==
    <<Command("clear", "", TRUE, NoParameters),
      Command("scenepass", "", TRUE, NoParameters),
      Command("forwardlights", "", TRUE, NoParameters)>>

ForwardDepth ==
    <<Command("clear", "", TRUE, NoParameters),
      Command("scenepass", "", TRUE, NoParameters)>> \o Forward

DefaultRenderPaths == {Forward, ForwardDepth}

\* The value a parameter has from the effect file, before any slider set it
FileDefault == [from |-> "PostProcess/SSAO.xml"]

FloatValue(micro) == [from |-> "float", micro |-> micro]

\* PostProcess/SSAO.xml: the commands tagged "SSAO" that carry the five
\* parameters; whether the file marks them enabled is not known here
SSAOEffect(enabledInFile) ==
    <<Command("quad", "SSAO", enabledInFile, [n \in SSAOParameters |-> FileDefault])>>

\* No copy: the same object again
CloneShared(heap, id) == [heap |-> heap, id |-> id]

\* RenderPath::Clone: a new object holding a copy of the commands
Clone(heap, id) == [heap |-> Append(heap, heap[id]), id |-> Len(heap) + 1]

\* RenderPath::Append(XMLFile)
AppendEffect(path, effect) == path \o effect

\* RenderPath::SetEnabled(tag, active)
SetEnabled(path, tag, active) ==
    [k \in DOMAIN path |->
        IF path[k].tag = tag THEN [path[k] EXCEPT !.enabled = active] ELSE path[k]]

\* RenderPath::SetShaderParameter(name, value)
SetShaderParameter(path, name, value) ==
    [k \in DOMAIN path |->
        IF name \in DOMAIN path[k].shaderParameters
        THEN [path[k] EXCEPT !.shaderParameters[name] = value]
        ELSE path[k]]

----------------------------------------------------------------------------
(* StaticScene::Start *)

Init ==
    /\ pc = "CreateScene"
    /\ randomSeed \in Seeds
    /\ autoReload = FALSE
    /\ scene_ = NULL
    /\ i = 0
    /\ cameraNode_ = 0
    /\ uiTexts = <<>>
    /\ window_ = NULL
    /\ sliders = <<>>
    /\ subscribed = {}
    /\ nextSlider = 1
    /\ renderPaths \in {<<p>> : p \in DefaultRenderPaths}
    /\ viewport0 = NULL
    /\ yaw_ = 0
    /\ pitch_ = 0
    /\ mouseVisible = FALSE
    /\ mouseMode = "MM_ABSOLUTE"
    /\ focusElement = NULL
    /\ handlerCalls = 0
    /\ nullDeref = FALSE
    /\ lastFrame = NULL
    /\ tabLog = <<>>
    /\ frames = 0
    /\ sliderMoves = 0

\* Lines 78-104: scene, octree, ground plane, zone; the loop starts at i = 0
CreateSceneBegin ==
    /\ pc = "CreateScene"
    /\ autoReload' = TRUE
    /\ scene_' = [components |-> <<[type |-> "Octree"]>>,
                  children |-> <<PlaneNode, ZoneNode>>]
    /\ i' = 0
    /\ pc' = "CreateSceneLoop"
    /\ UNCHANGED <<randomSeed, cameraNode_, uiVars, renderVars, yaw_, pitch_,
                   inputVars, eventVars>>

\* Lines 120-129: one iteration of the loop
CreateSceneLoop ==
    /\ pc = "CreateSceneLoop"
    /\ i < NUM_OBJECTS
    /\ scene_' = [scene_ EXCEPT !.children = Append(@, MushroomNode(i, randomSeed))]
    /\ i' = i + 1
    /\ UNCHANGED <<pc, randomSeed, autoReload, cameraNode_, uiVars, renderVars,
                   yaw_, pitch_, inputVars, eventVars>>

\* Lines 133-137: loop exit, the camera node
CreateSceneEnd ==
    /\ pc = "CreateSceneLoop"
    /\ ~(i < NUM_OBJECTS)
    /\ scene_' = [scene_ EXCEPT !.children = Append(@, CameraNode)]
    /\ cameraNode_' = Len(scene_.children) + 1
    /\ pc' = "CreateInstructions"
    /\ UNCHANGED <<randomSeed, autoReload, i, uiVars, renderVars, yaw_, pitch_,
                   inputVars, eventVars>>

----------------------------------------------------------------------------
(* CreateInstructions, CreateSlider and the slider-changed handlers *)

Min(a, b) == IF a < b THEN a ELSE b
Max(a, b) == IF a > b THEN a ELSE b
Clamp(v, lo, hi) == Max(lo, Min(v, hi))

\* Lines 198, 205, 212, 219, 226: CreateSlider(text, value, range), in order
SliderTable ==
    <<[text |-> "Strength", value |-> 1000, range |-> 5000],
      [text |-> "Area", value |-> 1750, range |-> 3000],
      [text |-> "Falloff", value |-> 1000, range |-> 10000],
      [text |-> "Noise Factor", value |-> 7000, range |-> 20000],
      [text |-> "Radius", value |-> 600, range |-> 10000]>>

SliderTexts == {SliderTable[k].text : k \in DOMAIN SliderTable}

\* A slider as the toolkit constructs it
NewSlider == [range |-> 1000, value |-> 0]

SetRange(slider, range) == [slider EXCEPT !.range = Max(range, 0)]

\* Slider::SetValue clamps to [0, range]; a slider-changed event carrying the
\* new value is sent when the value changed
SetValue(slider, value) ==
    LET v == Clamp(value, 0, slider.range) IN
    [slider |-> [slider EXCEPT !.value = v],
     sent |-> IF v # slider.value THEN <<v>> ELSE <<>>]

\* Lines 318-340: the slider CreateSlider returns, and the events sent from
\* inside it
CreateSlider(text, value, range) == SetValue(SetRange(NewSlider, range), value)

\* The shader parameter each handler names
ParameterOf(text) ==
    CASE text = "Strength" -> "SSAOStrength"
      [] text = "Area" -> "SSAOArea"
      [] text = "Falloff" -> "SSAOFalloff"
      [] text = "Noise Factor" -> "SSAONoiseFactor"
      [] text = "Radius" -> "SSAORadius"

\* A float of the slider's unit (thousandths) as a shader parameter (millionths)
Micro(value) == value * 1000

\* The value each handler passes to SetShaderParameter: value / 1000.0f for
\* the falloff slider (line 216), value for the others
ForwardedVerbatim(text, value) == FloatValue(Micro(value))

Forwarded(text, value) ==
    IF text = "Falloff"
    THEN FloatValue(Micro(value) \div 1000)
    ELSE FloatValue(Micro(value))

\* Lines 199-203 and the four like it: the handler of the slider named text
\* run on an event carrying value. GetViewport(0) is null until SetupViewport
\* has run, and the handler dereferences it
HandlerWrongName(text, value, heap, viewport) ==
    IF viewport = NULL
    THEN [renderPaths |-> heap, nullDeref |-> TRUE]
    ELSE [renderPaths |->
            [heap EXCEPT ![viewport.renderPath] =
                SetShaderParameter(@, "SSAOStrength", Forwarded(text, value))],
          nullDeref |-> FALSE]

Handler(text, value, heap, viewport) ==
    IF viewport = NULL
    THEN [renderPaths |-> heap, nullDeref |-> TRUE]
    ELSE [renderPaths |->
            [heap EXCEPT ![viewport.renderPath] =
                SetShaderParameter(@, ParameterOf(text), Forwarded(text, value))],
          nullDeref |-> FALSE]

\* An event reaches the handler only if the subscription was made before
DeliveredAlways(sender, event, subs) == TRUE

Delivered(sender, event, subs) == <<sender, event>> \in subs

\* SendEvent(E_SLIDERCHANGED) from the slider named text, for each event of
\* sent (at most one)
SendSliderChanged(text, sent) ==
    IF sent # <<>> /\ Delivered(text, "E_SLIDERCHANGED", subscribed)
    THEN LET r == Handler(text, sent[1], renderPaths, viewport0) IN
         /\ renderPaths' = r.renderPaths
         /\ nullDeref' = (nullDeref \/ r.nullDeref)
         /\ handlerCalls' = handlerCalls + 1
    ELSE UNCHANGED <<renderPaths, nullDeref, handlerCalls>>

\* Lines 142-196: the three texts and the hidden settings window
CreateInstructionsWindow ==
    /\ pc = "CreateInstructions"
    /\ uiTexts' = <<"SSAO Output", "SSAO Enabled", "SSAO Disabled">>
    /\ window_' = [visible |-> FALSE, children |-> <<>>]
    /\ nextSlider' = 1
    /\ pc' = "CreateSliders"
    /\ UNCHANGED <<sceneVars, sliders, subscribed, renderVars, yaw_, pitch_,
                   inputVars, eventVars>>

\* Lines 198-231: for one slider, CreateSlider and then SubscribeToEvent
CreateInstructionsSlider ==
    /\ pc = "CreateSliders"
    /\ nextSlider <= Len(SliderTable)
    /\ LET row == SliderTable[nextSlider]
           made == CreateSlider(row.text, row.value, row.range)
       IN  /\ window_' = [window_ EXCEPT !.children = Append(@, row.text)]
           /\ sliders' = [t \in DOMAIN sliders \cup {row.text} |->
                            IF t = row.text THEN made.slider ELSE sliders[t]]
           /\ SendSliderChanged(row.text, made.sent)
           /\ subscribed' = subscribed \cup {<<row.text, "E_SLIDERCHANGED">>}
    /\ nextSlider' = nextSlider + 1
    /\ pc' = IF nextSlider = Len(SliderTable) THEN "SetupViewport" ELSE pc
    /\ UNCHANGED <<sceneVars, uiTexts, viewport0, yaw_, pitch_, inputVars,
                   lastFrame, tabLog, frames, sliderMoves>>

----------------------------------------------------------------------------
(* SetupViewport, SubscribeToEvents, InitMouseMode *)

\* The renderer's default render path is the first object of the heap
DefaultRenderPathId == 1

\* Lines 237-250
SetupViewport ==
    /\ pc = "SetupViewport"
    /\ \E enabledInFile \in BOOLEAN :
        LET viewport == [scene |-> "scene_", camera |-> cameraNode_,
                         renderPath |-> DefaultRenderPathId]
            cloned == Clone(renderPaths, viewport.renderPath)
            effectRenderPath == cloned.id
            appended == [cloned.heap EXCEPT ![effectRenderPath] =
                            AppendEffect(@, SSAOEffect(enabledInFile))]
            enabled == [appended EXCEPT ![effectRenderPath] =
                            SetEnabled(@, "SSAO", TRUE)]
        IN  /\ renderPaths' = enabled
            /\ viewport0' = [viewport EXCEPT !.renderPath = effectRenderPath]
    /\ pc' = "SubscribeToEvents"
    /\ UNCHANGED <<sceneVars, uiVars, yaw_, pitch_, inputVars, eventVars>>

\* Lines 301-305
SubscribeToEvents ==
    /\ pc = "SubscribeToEvents"
    /\ subscribed' = subscribed \cup {<<"Engine", "E_UPDATE">>}
    /\ pc' = "InitMouseMode"
    /\ UNCHANGED <<sceneVars, uiTexts, window_, sliders, nextSlider, renderVars,
                   yaw_, pitch_, inputVars, eventVars>>

\* Line 73: Sample::InitMouseMode(MM_RELATIVE); Start returns
InitMouseMode ==
    /\ pc = "InitMouseMode"
    /\ mouseMode' = "MM_RELATIVE"
    /\ pc' = "running"
    /\ UNCHANGED <<sceneVars, uiVars, renderVars, yaw_, pitch_, mouseVisible,
                   focusElement, eventVars>>

----------------------------------------------------------------------------
(* HandleUpdate and MoveCamera *)

\* Division rounding toward zero, as the same magnitude of either sign
\* rounds alike in floating point
Div(a, b) == IF a >= 0 THEN a \div b ELSE -((-a) \div b)

\* Sine and cosine scaled by 1000, for the angles the inputs produce
\* (multiples of 30 degrees)
Sin(a) ==
    LET n == (a % 3600) \div 300
        quarter == <<0, 500, 866, 1000, 866, 500>>
    IN  IF n < 6 THEN quarter[n + 1] ELSE -quarter[n - 5]

Cos(a) == Sin(a + 900)

\* Quaternion(pitch, yaw, 0) * v: pitch about X, then yaw about Y
Rotate(rotation, v) ==
    LET sp == Sin(rotation.pitch)
        cp == Cos(rotation.pitch)
        sy == Sin(rotation.yaw)
        cy == Cos(rotation.yaw)
        y1 == Div(v[2] * cp - v[3] * sp, 1000)
        z1 == Div(v[2] * sp + v[3] * cp, 1000)
    IN  Vector3(Div(v[1] * cy + z1 * sy, 1000), y1, Div(z1 * cy - v[1] * sy, 1000))

\* Node::Translate(delta), local space
Translate(node, delta) ==
    LET d == Rotate(node.rotation, delta) IN
    [node EXCEPT !.position = Vector3(@[1] + d[1], @[2] + d[2], @[3] + d[3])]

FORWARD == Vector3(0, 0, 1)
BACK == Vector3(0, 0, -1)
LEFT == Vector3(-1, 0, 0)
RIGHT == Vector3(1, 0, 0)

\* direction * MOVE_SPEED * timeStep, timeStep in milliseconds
Step(direction, timeStep) ==
    Vector3(direction[1] * MOVE_SPEED * timeStep,
            direction[2] * MOVE_SPEED * timeStep,
            direction[3] * MOVE_SPEED * timeStep)

\* Lines 291-298
TranslateIf(down, node, direction, timeStep) ==
    IF down THEN Translate(node, Step(direction, timeStep)) ELSE node

MoveKeys(node, keys, timeStep) ==
    LET w == TranslateIf("W" \in keys, node, FORWARD, timeStep)
        s == TranslateIf("S" \in keys, w, BACK, timeStep)
        a == TranslateIf("A" \in keys, s, LEFT, timeStep)
    IN  TranslateIf("D" \in keys, a, RIGHT, timeStep)

\* Line 256: the UI has a focused element
HasFocusNever(element) == FALSE

HasFocus(element) == element # NULL

\* Lines 263-269: the mouse mode set after a Tab press
TabMouseModeFree(visible) == "MM_FREE"

TabMouseMode(visible) == IF visible THEN "MM_FREE" ELSE "MM_ABSOLUTE"

\* Line 272: no camera movement while the window is visible
WindowBlocksNever(visible) == FALSE

WindowBlocks(visible) == visible

\* Line 284
ClampPitchNone(pitch) == pitch

ClampPitch(pitch) == Clamp(pitch, -900, 900)

CameraOf(scene) == scene.children[cameraNode_]

\* Lines 253-299, called from HandleUpdate (lines 307-316) with the frame's
\* time step; tab is GetKeyPress(KEY_TAB), keys the keys held down, mouseMove
\* this frame's mouse motion
MoveCamera(timeStep, tab, keys, mouseMove) ==
    IF HasFocus(focusElement)
    THEN UNCHANGED <<window_, mouseVisible, mouseMode, tabLog, yaw_, pitch_, scene_>>
    ELSE
        LET visible == IF tab THEN ~window_.visible ELSE window_.visible IN
        /\ window_' = [window_ EXCEPT !.visible = visible]
        /\ IF tab
           THEN /\ mouseVisible' = visible
                /\ mouseMode' = TabMouseMode(visible)
                /\ tabLog' = Append(tabLog, [visible |-> window_.visible,
                                             mouseMode |-> mouseMode])
           ELSE UNCHANGED <<mouseVisible, mouseMode, tabLog>>
        /\ IF WindowBlocks(visible)
           THEN UNCHANGED <<yaw_, pitch_, scene_>>
           ELSE
             LET yaw == yaw_ + MOUSE_SENSITIVITY * mouseMove[1]
                 pitch == ClampPitch(pitch_ + MOUSE_SENSITIVITY * mouseMove[2])
                 turned == [CameraOf(scene_) EXCEPT
                              !.rotation = [pitch |-> pitch, yaw |-> yaw, roll |-> 0]]
             IN  /\ yaw_' = yaw
                 /\ pitch_' = pitch
                 /\ scene_' = [scene_ EXCEPT
                       !.children[cameraNode_] = MoveKeys(turned, keys, timeStep)]

HandleUpdate ==
    /\ pc = "running"
    /\ Delivered("Engine", "E_UPDATE", subscribed)
    /\ frames < MaxFrames
    /\ \E in \in FrameInputs, tab \in BOOLEAN :
        /\ MoveCamera(in.timeStep, tab, in.keys, in.mouseMove)
        /\ lastFrame' = [timeStep |-> in.timeStep, tab |-> tab, keys |-> in.keys,
                         mouseMove |-> in.mouseMove,
                         focused |-> (focusElement # NULL)]
    /\ frames' = frames + 1
    /\ UNCHANGED <<pc, randomSeed, autoReload, i, cameraNode_, uiTexts, sliders,
                   subscribed, nextSlider, renderVars, focusElement, handlerCalls,
                   nullDeref, sliderMoves>>

----------------------------------------------------------------------------
(* The environment: the user moves a slider, UI focus changes *)

\* The toolkit sets the slider's value and sends the slider-changed event
SliderMoved ==
    /\ pc = "running"
    /\ sliderMoves < MaxSliderMoves
    /\ \E text \in DOMAIN sliders, value \in SliderInputs :
        LET set == SetValue(sliders[text], value) IN
        /\ sliders' = [sliders EXCEPT ![text] = set.slider]
        /\ SendSliderChanged(text, set.sent)
    /\ sliderMoves' = sliderMoves + 1
    /\ UNCHANGED <<pc, sceneVars, uiTexts, window_, subscribed, nextSlider,
                   viewport0, yaw_, pitch_, inputVars, lastFrame, tabLog, frames>>

FocusElements == {NULL, [name |-> "LineEdit"]}

FocusChanged ==
    /\ pc = "running"
    /\ \E element \in FocusElements :
        /\ element # focusElement
        /\ focusElement' = element
    /\ UNCHANGED <<pc, sceneVars, uiVars, renderVars, yaw_, pitch_, mouseVisible,
                   mouseMode, eventVars>>


----------------------------------------------------------------------------
(* Properties *)

\* The values of the shader parameter name on viewport 0's render path
Parameter(name) ==
    LET path == renderPaths[viewport0.renderPath] IN
    {path[k].shaderParameters[name] :
        k \in {j \in DOMAIN path : name \in DOMAIN path[j].shaderParameters}}

\* A step in which the handler of the slider named text ran, after Start, on
\* an event carrying the slider's new value
HandlerStep(text) ==
    /\ pc = "running"
    /\ handlerCalls' = handlerCalls + 1
    /\ sliders'[text] # sliders[text]

\* C1: a slider-changed event carrying X on the Strength, Area, Noise Factor
\* or Radius slider, delivered after Start, sets the parameter SSAOStrength,
\* SSAOArea, SSAONoiseFactor or SSAORadius of viewport 0's render path to
\* exactly X and leaves the other four SSAO parameters unchanged.
C1_SliderSetsNamedParameter ==
    [][\A pair \in {<<"Strength", "SSAOStrength">>, <<"Area", "SSAOArea">>,
                    <<"Noise Factor", "SSAONoiseFactor">>,
                    <<"Radius", "SSAORadius">>} :
        HandlerStep(pair[1]) =>
            /\ Parameter(pair[2])' = {FloatValue(Micro(sliders'[pair[1]].value))}
            /\ \A other \in SSAOParameters \ {pair[2]} :
                  Parameter(other)' = Parameter(other)]_vars

C1_Witness ==
    /\ pc = "running"
    /\ handlerCalls = 1
    /\ sliders["Area"].value = 3000
    /\ Parameter("SSAOArea") = {FloatValue(3000000)}
    /\ Parameter("SSAOStrength") = {FileDefault}

\* C2: Falloff is the only slider whose value is transformed: an event
\* carrying X on the Falloff slider sets SSAOFalloff to X / 1000, every other
\* slider sets its parameter to X itself.
C2_OnlyFalloffScaled ==
    [][\A text \in SliderTexts :
        HandlerStep(text) =>
            LET X == Micro(sliders'[text].value)
                set == UNION {Parameter(n)' \ Parameter(n) : n \in SSAOParameters}
            IN  /\ set # {}
                /\ \A v \in set :
                     /\ v.from = "float"
                     /\ IF text = "Falloff" THEN v.micro * 1000 = X ELSE v.micro = X]_vars

C2_Witness ==
    /\ pc = "running"
    /\ handlerCalls = 1
    /\ sliders["Falloff"].value = 4000
    /\ Parameter("SSAOFalloff") = {FloatValue(4000)}

\* C3: the camera pitch is within [-90, 90] degrees in every reachable state,
\* and the camera node's rotation is that pitch, the yaw, and roll 0.
C3_PitchClamped ==
    /\ pitch_ >= -900
    /\ pitch_ <= 900
    /\ cameraNode_ # 0 =>
          CameraOf(scene_).rotation = [pitch |-> pitch_, yaw |-> yaw_, roll |-> 0]

C3_Witness ==
    /\ frames = 2
    /\ pitch_ = 900
    /\ lastFrame.mouseMove = <<900, 600>>
    /\ CameraOf(scene_).rotation = [pitch |-> 900, yaw |-> 1800, roll |-> 0]

\* C4: two Tab presses processed in frame updates return the window's
\* visibility and the mouse mode to the values they had before the first
\* press, from any reachable state, the one right after Start included.
C4_TwoTabPressesRestore ==
    Len(tabLog) >= 2 =>
        LET before == tabLog[Len(tabLog) - 1] IN
        /\ window_.visible = before.visible
        /\ mouseMode = before.mouseMode

\* C5: after SetupViewport viewport 0's render path is a clone of the new
\* viewport's original render path with the SSAO effect appended and the
\* commands tagged "SSAO" enabled; the original render path is not modified.
C5_ViewportUsesClone ==
    viewport0 # NULL =>
        LET original == renderPaths[DefaultRenderPathId]
            effect == renderPaths[viewport0.renderPath]
        IN  /\ viewport0.renderPath # DefaultRenderPathId
            /\ original \in DefaultRenderPaths
            /\ Len(effect) > Len(original)
            /\ SubSeq(effect, 1, Len(original)) = original
            /\ \A k \in Len(original) + 1 .. Len(effect) :
                  /\ effect[k].tag = "SSAO"
                  /\ effect[k].enabled
            /\ \A n \in SSAOParameters : Parameter(n) # {}

C5_Witness ==
    /\ pc = "SubscribeToEvents"
    /\ viewport0 # NULL
    /\ renderPaths[DefaultRenderPathId] = ForwardDepth
    /\ Len(renderPaths[viewport0.renderPath]) = Len(ForwardDepth) + 1

\* CreateScene has returned
SceneBuilt == pc \notin {"CreateScene", "CreateSceneLoop"}

NodesNamed(name) ==
    {k \in DOMAIN scene_.children : scene_.children[k].name = name}

C7_TabSetsMouse ==
    [][(frames' = frames + 1 /\ lastFrame'.tab /\ focusElement = NULL) =>
        /\ window_'.visible = ~window_.visible
        /\ mouseVisible' = window_'.visible
        /\ mouseMode' = IF window_'.visible THEN "MM_FREE" ELSE "MM_ABSOLUTE"]_vars

C7_Witness ==
    /\ frames = 2
    /\ Len(tabLog) = 2
    /\ ~window_.visible
    /\ ~mouseVisible
    /\ mouseMode = "MM_ABSOLUTE"

\* Opposite keys held together move the camera back where it was
KeysCancel(keys) ==
    /\ ("W" \in keys) = ("S" \in keys)
    /\ ("A" \in keys) = ("D" \in keys)

\* C8: a frame update that finds the settings window visible after its Tab
\* handling leaves yaw, pitch and the camera node's rotation and position
\* unchanged whatever the mouse motion and keys; so the frame whose Tab press
\* opens the window does not move the camera, and the frame whose Tab press
\* closes it applies that frame's mouse motion and keys.
C8_VisibleWindowFreezesCamera ==
    [][(frames' = frames + 1 /\ focusElement = NULL) =>
        /\ window_'.visible =>
              /\ yaw_' = yaw_
              /\ pitch_' = pitch_
              /\ CameraOf(scene_)' = CameraOf(scene_)
        /\ (lastFrame'.tab /\ window_.visible) =>
              /\ yaw_' = yaw_ + lastFrame'.mouseMove[1]
              /\ lastFrame'.mouseMove[2] > 0 => (pitch_' > pitch_ \/ pitch_' = 900)
              /\ lastFrame'.mouseMove[2] < 0 => (pitch_' < pitch_ \/ pitch_' = -900)
              /\ ~KeysCancel(lastFrame'.keys) =>
                    CameraOf(scene_)'.position # CameraOf(scene_).position]_vars

C8_Witness ==
    /\ frames = 2
    /\ Len(tabLog) = 2
    /\ ~lastFrame.focused
    /\ lastFrame.tab
    /\ lastFrame.keys = {"W", "D"}
    /\ yaw_ = 900
    /\ pitch_ = 600
    /\ CameraOf(scene_).position # <<0, 5000, 0>>

\* C9: with a focused UI element a frame update changes nothing: window
\* visibility, cursor visibility, mouse mode, yaw, pitch and the camera node's
\* transform stay, and a Tab press in that frame is ignored.
C9_FocusFreezesFrame ==
    [][(frames' = frames + 1 /\ focusElement # NULL) =>
        UNCHANGED <<window_, mouseVisible, mouseMode, yaw_, pitch_, scene_,
                    tabLog>>]_vars

C9_Witness ==
    /\ frames = 2
    /\ lastFrame.focused
    /\ lastFrame.tab
    /\ lastFrame.keys = {"W", "D"}
    /\ Len(tabLog) = 1
    /\ window_.visible

\* The sliders' initial values, as the claim lists them
InitialValue(text) ==
    CASE text = "Strength" -> 1000
      [] text = "Area" -> 1750
      [] text = "Falloff" -> 1000
      [] text = "Noise Factor" -> 7000
      [] text = "Radius" -> 600

\* C10: no slider handler runs before viewport 0 is installed and Start
\* writes no SSAO shader parameter: each slider has its initial value before
\* its handler is subscribed, and the five parameters keep the effect file's
\* defaults until the first slider-changed event after Start.
C10_NoParameterWrittenByStart ==
    /\ ~nullDeref
    /\ pc # "running" => handlerCalls = 0
    /\ viewport0 = NULL => handlerCalls = 0
    /\ \A text \in SliderTexts :
          <<text, "E_SLIDERCHANGED">> \in subscribed =>
              /\ text \in DOMAIN sliders
              /\ sliderMoves = 0 => sliders[text].value = InitialValue(text)
    /\ (viewport0 # NULL /\ handlerCalls = 0) =>
          \A n \in SSAOParameters : Parameter(n) = {FileDefault}

C10_Witness ==
    /\ pc = "running"
    /\ frames = 2
    /\ handlerCalls = 0
    /\ DOMAIN sliders = SliderTexts
    /\ sliders["Radius"].value = 600
    /\ Parameter("SSAORadius") = {FileDefault}


Next ==
    \/ CreateSceneBegin
    \/ CreateSceneLoop
    \/ CreateSceneEnd
    \/ CreateInstructionsWindow
    \/ CreateInstructionsSlider
    \/ SetupViewport
    \/ SubscribeToEvents
    \/ InitMouseMode
    \/ HandleUpdate
    \/ SliderMoved
    \/ FocusChanged

Spec == Init /\ [][Next]_vars
====
